---------------------------- MODULE Spec2Model ----------------------------
(***************************************************************************)
(* A model of aps_dm_server.py: the identifier masking registry (IDMasker) *)
(* and the four tools built on it (get_hubs, get_projects,                 *)
(* get_project_files, get_versions).                                       *)
(*                                                                         *)
(* Strings are sequences of one-character strings, so that the string      *)
(* operations of the code (f-string formatting, re.match, strip, lower,    *)
(* substring test) are computed and not assumed.  A Python dict is a       *)
(* function whose DOMAIN is its key set.  Python's None is the value None  *)
(* below, which is no string (its only element is not a character).        *)
(***************************************************************************)
EXTENDS Integers, Sequences, FiniteSets, TLC

VARIABLES
    APS_TOKEN,      \* the pre-issued token of the environment, or None
    TOKEN_CACHE,    \* the cached token and its expiry
    now,            \* the clock, in seconds
    upstream,       \* the upstream account the server talks to (a name in Worlds)
    id_masker,      \* the global IDMasker instance: its eleven dicts
    last,           \* the last call made: operation, arguments, upstream calls, result
    lastListed      \* history: project id -> real hub id sent upstream by the
                    \* most recent get_projects call that returned the project

vars == <<APS_TOKEN, TOKEN_CACHE, now, upstream, id_masker, last, lastListed>>

\* The token cache, the clock and the environment.
auth_vars == <<APS_TOKEN, TOKEN_CACHE, now>>

-----------------------------------------------------------------------------
(* Bounds of the model *)

\* The registry holds at most this many forward entries over the five kinds.
MaxEntries == 4

-----------------------------------------------------------------------------
(* Python values *)

None == <<"None">>

EmptyDict == [k \in {} |-> None]

\* d[k] = v
Put(d, k, v) == [x \in (DOMAIN d) \cup {k} |-> IF x = k THEN v ELSE d[x]]

\* d.get(k, default)
Get(d, k, default) == IF k \in DOMAIN d THEN d[k] ELSE default

\* not x, for x a string or None
Falsy(x) == x = None \/ x = <<>>

DigitChars == <<"0", "1", "2", "3", "4", "5", "6", "7", "8", "9">>

\* str(n) for n >= 0: the decimal digits, no leading zero
RECURSIVE IntToStr(_)
IntToStr(n) ==
    IF n < 10 THEN <<DigitChars[n + 1]>>
    ELSE IntToStr(n \div 10) \o <<DigitChars[(n % 10) + 1]>>

-----------------------------------------------------------------------------
(* IDMasker *)

Kinds == {"hub", "project", "folder", "item", "version"}

\* The attribute holding each kind's real -> masked dict, and its reverse.
FwdField == [hub |-> "hub_map", project |-> "project_map", folder |-> "folder_map",
             item |-> "item_map", version |-> "version_map"]

RevField == [hub |-> "rev_hub_map", project |-> "rev_project_map",
             folder |-> "rev_folder_map", item |-> "rev_item_map",
             version |-> "rev_version_map"]

\* The literal text before the sequence number in each kind's f-string.
Prefix == [hub     |-> <<"h", "u", "b", "_">>,
           project |-> <<"p", "r", "o", "j", "e", "c", "t", "_">>,
           folder  |-> <<"f", "o", "l", "d", "e", "r", "_">>,
           item    |-> <<"i", "t", "e", "m", "_">>,
           version |-> <<"v", "e", "r", "s", "i", "o", "n", "_">>]

Unknown == <<"U", "n", "k", "n", "o", "w", "n">>

\* IDMasker.__init__
NewIDMasker ==
    [hub_map |-> EmptyDict, project_map |-> EmptyDict, item_map |-> EmptyDict,
     folder_map |-> EmptyDict, version_map |-> EmptyDict,
     rev_hub_map |-> EmptyDict, rev_project_map |-> EmptyDict,
     rev_item_map |-> EmptyDict, rev_folder_map |-> EmptyDict,
     rev_version_map |-> EmptyDict,
     project_to_hub |-> EmptyDict]

\* len(self.<kind>_map)
MapLen(m, kind) == Cardinality(DOMAIN m[FwdField[kind]])

\* Faulty variants of mask_id, which the properties of the registry are to
\* tell from it.  The first writes the reverse entry under the real
\* identifier, not under the surrogate.
mask_id_swapped(m, kind, real_id) ==
    IF Falsy(real_id) THEN [m |-> m, ret |-> Unknown]
    ELSE IF real_id \notin DOMAIN m[FwdField[kind]]
    THEN LET masked == Prefix[kind] \o IntToStr(MapLen(m, kind) + 1)
             m1 == [m EXCEPT ![FwdField[kind]] = Put(@, real_id, masked)]
             m2 == [m1 EXCEPT ![RevField[kind]] = Put(@, real_id, masked)]
         IN  [m |-> m2, ret |-> m2[FwdField[kind]][real_id]]
    ELSE [m |-> m, ret |-> m[FwdField[kind]][real_id]]

\* The second does not look the real identifier up: it allocates each time.
mask_id_always(m, kind, real_id) ==
    IF Falsy(real_id) THEN [m |-> m, ret |-> Unknown]
    ELSE LET masked == Prefix[kind] \o IntToStr(MapLen(m, kind) + 1)
             m1 == [m EXCEPT ![FwdField[kind]] = Put(@, real_id, masked)]
             m2 == [m1 EXCEPT ![RevField[kind]] = Put(@, masked, real_id)]
         IN  [m |-> m2, ret |-> m2[FwdField[kind]][real_id]]

\* The third numbers from 0: len(map) without the + 1.
mask_id_from_zero(m, kind, real_id) ==
    IF Falsy(real_id) THEN [m |-> m, ret |-> Unknown]
    ELSE IF real_id \notin DOMAIN m[FwdField[kind]]
    THEN LET masked == Prefix[kind] \o IntToStr(MapLen(m, kind))
             m1 == [m EXCEPT ![FwdField[kind]] = Put(@, real_id, masked)]
             m2 == [m1 EXCEPT ![RevField[kind]] = Put(@, masked, real_id)]
         IN  [m |-> m2, ret |-> m2[FwdField[kind]][real_id]]
    ELSE [m |-> m, ret |-> m[FwdField[kind]][real_id]]

\* The fourth keeps one entry a kind: a new identifier evicts the others.
mask_id_evicting(m, kind, real_id) ==
    IF Falsy(real_id) THEN [m |-> m, ret |-> Unknown]
    ELSE IF real_id \notin DOMAIN m[FwdField[kind]]
    THEN LET masked == Prefix[kind] \o IntToStr(MapLen(m, kind) + 1)
             m1 == [m EXCEPT ![FwdField[kind]] = Put(EmptyDict, real_id, masked)]
             m2 == [m1 EXCEPT ![RevField[kind]] = Put(EmptyDict, masked, real_id)]
         IN  [m |-> m2, ret |-> m2[FwdField[kind]][real_id]]
    ELSE [m |-> m, ret |-> m[FwdField[kind]][real_id]]

\* The fifth has no test for an empty identifier: it registers it.
mask_id_blank(m, kind, real_id) ==
    IF real_id \notin DOMAIN m[FwdField[kind]]
    THEN LET masked == Prefix[kind] \o IntToStr(MapLen(m, kind) + 1)
             m1 == [m EXCEPT ![FwdField[kind]] = Put(@, real_id, masked)]
             m2 == [m1 EXCEPT ![RevField[kind]] = Put(@, masked, real_id)]
         IN  [m |-> m2, ret |-> m2[FwdField[kind]][real_id]]
    ELSE [m |-> m, ret |-> m[FwdField[kind]][real_id]]

\* The body shared by mask_hub_id, mask_project_id, mask_folder_id,
\* mask_item_id and mask_version: the masker after the call (m) and the
\* value returned (ret).
mask_id(m, kind, real_id) ==
    IF Falsy(real_id) THEN [m |-> m, ret |-> Unknown]
    ELSE IF real_id \notin DOMAIN m[FwdField[kind]]
    THEN LET masked == Prefix[kind] \o IntToStr(MapLen(m, kind) + 1)
             m1 == [m EXCEPT ![FwdField[kind]] = Put(@, real_id, masked)]
             m2 == [m1 EXCEPT ![RevField[kind]] = Put(@, masked, real_id)]
         IN  [m |-> m2, ret |-> m2[FwdField[kind]][real_id]]
    ELSE [m |-> m, ret |-> m[FwdField[kind]][real_id]]

\* A faulty variant of unmask_id: dict.get with no default, so None for a
\* key the reverse map does not hold.
unmask_id_none(m, kind, masked_id) == Get(m[RevField[kind]], masked_id, None)

\* The body shared by the five unmask methods: dict.get with the argument
\* itself as the default.
unmask_id(m, kind, masked_id) == Get(m[RevField[kind]], masked_id, masked_id)

mask_hub_id(m, real_id) == mask_id(m, "hub", real_id)
mask_project_id(m, real_id) == mask_id(m, "project", real_id)
mask_folder_id(m, real_id) == mask_id(m, "folder", real_id)
mask_item_id(m, real_id) == mask_id(m, "item", real_id)
mask_version(m, real_id) == mask_id(m, "version", real_id)

\* A faulty variant of unmask_hub_id: it reads the reverse map of projects.
unmask_hub_id_project(m, masked_id) == unmask_id(m, "project", masked_id)

unmask_hub_id(m, masked_id) == unmask_id(m, "hub", masked_id)
unmask_project_id(m, masked_id) == unmask_id(m, "project", masked_id)
unmask_folder_id(m, masked_id) == unmask_id(m, "folder", masked_id)
unmask_item_id(m, masked_id) == unmask_id(m, "item", masked_id)
unmask_version(m, masked_id) == unmask_id(m, "version", masked_id)

\* A faulty variant of register_project_hub: setdefault, the first hub stays.
register_project_hub_first(m, project_id, hub_id) ==
    IF project_id \in DOMAIN m.project_to_hub THEN m
    ELSE [m EXCEPT !.project_to_hub = Put(@, project_id, hub_id)]

\* A faulty variant of get_hub_for_project: the project identifier itself
\* for a project that is not registered.
get_hub_for_project_self(m, project_id) == Get(m.project_to_hub, project_id, project_id)

register_project_hub(m, project_id, hub_id) ==
    [m EXCEPT !.project_to_hub = Put(@, project_id, hub_id)]

get_hub_for_project(m, project_id) == Get(m.project_to_hub, project_id, None)

\* Characters matched by \d in a Python 3 str pattern: the ASCII digits and
\* the other Unicode decimal digits, of which "U+0663" (ARABIC-INDIC DIGIT
\* THREE) stands for all.
ReDigit == {DigitChars[i] : i \in 1..10} \cup {"U+0663"}

\* re.match(r'^(hub|project|folder|item|version)_\d+$', id_str): the kind
\* word and underscore, then one or more \d; "$" matches at the end of the
\* string and also just before a newline that ends the string.
is_masked_id(id_str) ==
    \E kind \in Kinds :
        LET p == Prefix[kind]
        IN  /\ Len(id_str) > Len(p)
            /\ SubSeq(id_str, 1, Len(p)) = p
            /\ LET rest == SubSeq(id_str, Len(p) + 1, Len(id_str))
                   digits == IF rest[Len(rest)] = "\n"
                             THEN SubSeq(rest, 1, Len(rest) - 1)
                             ELSE rest
               IN  /\ Len(digits) >= 1
                   /\ \A i \in 1..Len(digits) : digits[i] \in ReDigit

\* Forward entries held over the five kinds.
TotalEntries(m) ==
    MapLen(m, "hub") + MapLen(m, "project") + MapLen(m, "folder")
        + MapLen(m, "item") + MapLen(m, "version")

WithinBounds(m) == TotalEntries(m) <= MaxEntries

-----------------------------------------------------------------------------
(* Calls of the registry's methods, one per step *)

\* Real identifiers handed to mask: plain ones, the empty string and, for
\* hubs, also None and a real identifier that has the shape of a surrogate.
RegistryReals(kind) ==
    IF kind = "hub"
    THEN {<<"a">>, <<"b">>, <<"h", "u", "b", "_", "2">>, <<>>, None}
    ELSE {<<"a">>, <<"b">>, <<>>}

\* Strings handed to unmask: surrogates (issued or not, of the kind asked or
\* of another) and a real identifier.
UnmaskArgs ==
    {<<"h", "u", "b", "_", "1">>, <<"h", "u", "b", "_", "2">>,
     <<"i", "t", "e", "m", "_", "1">>, <<"a">>}

\* TOKEN_CACHE as the module sets it
NewTokenCache == [token |-> None, expires_at |-> 0]

\* No call is under observation.
Idle == [op |-> "idle"]

\* The registry alone: no upstream is consulted.
InitRegistry ==
    /\ APS_TOKEN = None
    /\ TOKEN_CACHE = NewTokenCache
    /\ now = 0
    /\ upstream = "C"
    /\ id_masker = NewIDMasker
    /\ last = Idle
    /\ lastListed = EmptyDict

Mask(kind, real_id) ==
    LET r == mask_id(id_masker, kind, real_id)
    IN  /\ last = Idle
        /\ WithinBounds(r.m)
        /\ id_masker' = r.m
        /\ last' = [op |-> "mask", kind |-> kind, arg |-> real_id, ret |-> r.ret,
                    known |-> real_id \in DOMAIN id_masker[FwdField[kind]]]
        /\ UNCHANGED <<auth_vars, upstream, lastListed>>

Unmask(kind, masked_id) ==
    /\ last = Idle
    /\ last' = [op |-> "unmask", kind |-> kind, arg |-> masked_id,
                ret |-> unmask_id(id_masker, kind, masked_id)]
    /\ UNCHANGED <<auth_vars, upstream, id_masker, lastListed>>

RegisterProjectHub(project_id, hub_id) ==
    /\ last = Idle
    /\ id_masker' = register_project_hub(id_masker, project_id, hub_id)
    /\ last' = [op |-> "register_project_hub", project |-> project_id,
                hub |-> hub_id]
    /\ UNCHANGED <<auth_vars, upstream, lastListed>>

\* Calls run one after the other, each to completion; last holds the call
\* that has just returned, until the caller has read it.
Return ==
    /\ last # Idle
    /\ last' = Idle
    /\ UNCHANGED <<auth_vars, upstream, id_masker, lastListed>>

NextRegistry ==
    \/ \E kind \in Kinds : \E real_id \in RegistryReals(kind) : Mask(kind, real_id)
    \/ \E kind \in Kinds, masked_id \in UnmaskArgs : Unmask(kind, masked_id)
    \/ \E project_id \in {<<"a">>, <<"b">>}, hub_id \in {<<"a">>, <<"b">>} :
           RegisterProjectHub(project_id, hub_id)
    \/ Return

SpecRegistry == InitRegistry /\ [][NextRegistry]_vars

-----------------------------------------------------------------------------
(* More of Python's strings *)

UpperChars == <<"A", "B", "C", "D", "E", "F", "G", "H", "I", "J", "K", "L", "M",
                "N", "O", "P", "Q", "R", "S", "T", "U", "V", "W", "X", "Y", "Z">>

LowerChars == <<"a", "b", "c", "d", "e", "f", "g", "h", "i", "j", "k", "l", "m",
                "n", "o", "p", "q", "r", "s", "t", "u", "v", "w", "x", "y", "z">>

LowerChar(c) ==
    IF \E i \in 1..26 : UpperChars[i] = c
    THEN LowerChars[CHOOSE i \in 1..26 : UpperChars[i] = c]
    ELSE c

\* s.lower()
Lower(s) == [i \in 1..Len(s) |-> LowerChar(s[i])]

\* sub in s
IsSubstring(sub, s) ==
    \E i \in 0..(Len(s) - Len(sub)) : SubSeq(s, i + 1, i + Len(sub)) = sub

Whitespace == {" ", "\t", "\n", "\r"}

\* s.strip(), as a truth value: whether a character that is no whitespace is left
StripTruthy(s) == \E i \in 1..Len(s) : s[i] \notin Whitespace

\* None, where the code expects a dict
NoneDict == [none |-> TRUE]

\* not d, for d a dict or None
FalsyDict(d) == d = NoneDict \/ DOMAIN d = {}

\* String literals of the code that the model compares
FOLDERS == <<"f", "o", "l", "d", "e", "r", "s">>
ITEMS == <<"i", "t", "e", "m", "s">>
ProjectFiles == <<"P", "r", "o", "j", "e", "c", "t", " ", "F", "i", "l", "e", "s">>
NA == <<"N", "/", "A">>

-----------------------------------------------------------------------------
(* The upstream service (aps_toolkit.BIM360), as the tools see it: what each *)
(* of its five operations answers.  A world is one upstream account.         *)

h1 == <<"h", "-", "1">>
h2 == <<"h", "-", "2">>
p1 == <<"p", "-", "1">>
p2 == <<"p", "-", "2">>
t1 == <<"t", "-", "1">>
t2 == <<"t", "-", "2">>
t3 == <<"t", "-", "3">>
f1 == <<"f", "-", "1">>
i1 == <<"i", "-", "1">>
i2 == <<"i", "-", "2">>
i3 == <<"i", "-", "3">>
i4 == <<"i", "-", "4">>
v1 == <<"v", "-", "1">>
v2 == <<"v", "-", "2">>

Entity(id) == [id |-> id]
Folder(id, name) == [type |-> FOLDERS, id |-> id, attributes |-> [displayName |-> name]]
File(id, fileType) == [type |-> ITEMS, id |-> id, attributes |-> [fileType |-> fileType]]
Data(list) == [data |-> list]

\* A response that is a dict without the "data" key.
NoDataKey == [errors |-> <<>>]

\* An account with two hubs, a project listed under both, a "Project Files"
\* top folder standing between two others, and a two-level folder tree.
WorldA ==
    [hubs |-> Data(<<Entity(h1), Entity(h2)>>),
     projects |-> (h1 :> Data(<<Entity(p1)>>)) @@ (h2 :> Data(<<Entity(p1)>>)),
     top_folders |->
         (p1 :> Data(<<Folder(t1, <<"P", "l", "a", "n", "s">>), Folder(t2, ProjectFiles),
                       Folder(t3, <<"X">>)>>)),
     contents |->
         (t2 :> Data(<<Folder(f1, <<"s", "u", "b">>), File(i1, <<"r", "v", "t">>),
                       [type |-> ITEMS, id |-> i2, attributes |-> EmptyDict]>>))
         @@ (f1 :> Data(<<File(i3, <<"R", "V", "T">>)>>))
         @@ (t1 :> Data(<<File(i4, <<"d", "w", "g">>)>>)),
     versions |-> (i1 :> Data(<<Entity(v1), Entity(v2)>>))]

\* An account whose records lack identifiers or carry empty ones.
WorldB ==
    [hubs |-> Data(<<EmptyDict, Entity(<<>>), Entity(h1)>>),
     projects |-> (h1 :> Data(<<EmptyDict, Entity(p1), Entity(None)>>)),
     top_folders |->
         (p1 :> Data(<<[id |-> t1], Folder(<<>>, ProjectFiles)>>)),
     contents |->
         (t1 :> Data(<<[type |-> ITEMS], File(i1, <<"R", "v", "t">>),
                       [type |-> <<"x">>, id |-> i2], [type |-> FOLDERS]>>))
         @@ (<<>> :> Data(<<File(<<>>, <<"r", "v", "t">>)>>)),
     versions |-> (i1 :> Data(<<EmptyDict, Entity(None), Entity(v1)>>))]

\* An account with no hub to list, two projects, no "Project Files" folder,
\* and folders and items the service has nothing to say about.
WorldC ==
    [hubs |-> Data(<<>>),
     projects |-> (h1 :> Data(<<Entity(p1), Entity(p2)>>)) @@ (h2 :> NoDataKey),
     top_folders |->
         (p1 :> Data(<<Folder(t1, <<"A">>), Folder(t3, <<"X">>)>>))
         @@ (p2 :> Data(<<>>)),
     contents |->
         (t1 :> Data(<<File(i4, <<"d", "w", "g">>), Folder(f1, <<"s", "u", "b">>)>>))
         @@ (f1 :> NoDataKey)
         @@ (t3 :> Data(<<File(i1, <<"r", "v", "t">>)>>)),
     versions |-> (i1 :> Data(<<>>))]

\* An account whose service leaves the "data" key out of the hubs, of the top
\* folders of one project and of the versions, has no project under one hub,
\* has nothing to say about the first of two top folders, and has an empty
\* folder.
WorldD ==
    [hubs |-> NoDataKey,
     projects |-> (h1 :> Data(<<Entity(p1), Entity(p2)>>)) @@ (h2 :> Data(<<>>)),
     top_folders |->
         (p1 :> Data(<<Folder(t1, <<"A">>), Folder(t3, <<"X">>)>>))
         @@ (p2 :> NoDataKey),
     contents |-> (t3 :> Data(<<File(i1, <<"r", "v", "t">>)>>)) @@ (f1 :> Data(<<>>)),
     versions |-> (i1 :> NoDataKey)]

\* An account whose service answers None but for the projects of one hub.
WorldE ==
    [hubs |-> NoneDict,
     projects |-> (h1 :> Data(<<Entity(p1)>>)),
     top_folders |-> EmptyDict,
     contents |-> EmptyDict,
     versions |-> EmptyDict]

\* The accounts, by name.
World == [A |-> WorldA, B |-> WorldB, C |-> WorldC, D |-> WorldD, E |-> WorldE]

Worlds == DOMAIN World

\* The record of one upstream call, and what the five operations answer: an
\* operation asked about something the account does not hold answers None.
Call(fn, args) == [fn |-> fn, args |-> args]

bim360_get_hubs(w) == w.hubs
bim360_get_projects(w, hub_id) == Get(w.projects, hub_id, NoneDict)
bim360_get_top_folders(w, hub_id, project_id) == Get(w.top_folders, project_id, NoneDict)
bim360_get_folder_contents(w, project_id, folder_id) == Get(w.contents, folder_id, NoneDict)
bim360_get_item_versions(w, project_id, item_id) == Get(w.versions, item_id, NoneDict)

\* What a tool call ends with: a text (a message, a list of rendered blocks,
\* an error text) or an exception that leaves the handler.
Message(text) == [type |-> "message", text |-> text]
Blocks(head, blocks) == [type |-> "blocks", head |-> head, blocks |-> blocks]
ErrorText(doing, e) == [type |-> "error", text |-> <<"Error ", doing, ": ", e>>]
Raised(e) == [type |-> "raised", exception |-> e]

\* The exception an upstream call raises when it fails.
UpstreamError == "upstream failed"

-----------------------------------------------------------------------------
(* authenticate *)

\* What Auth.auth3leg does: it returns a token, or raises.
GrantedToken == <<"g">>
AuthFailed == <<"auth3leg raised">>
Grants == {GrantedToken, AuthFailed}

\* The pre-issued token of the environment, when there is one.
EnvToken == <<"e">>

AuthError == "authorization failed"

\* A faulty variant of authenticate: the cached token still counts at the
\* second it expires (>= for >).
authenticate_inclusive(cache, current_time, aps_token, grant) ==
    IF ~Falsy(cache.token) /\ cache.expires_at >= current_time
    THEN [cache |-> cache, raised |-> FALSE, ret |-> cache.token]
    ELSE IF ~Falsy(aps_token)
    THEN [cache |-> [token |-> aps_token, expires_at |-> current_time + 3600],
          raised |-> FALSE, ret |-> aps_token]
    ELSE IF grant = AuthFailed
    THEN [cache |-> cache, raised |-> TRUE, ret |-> None]
    ELSE [cache |-> [token |-> grant, expires_at |-> current_time + 3600],
          raised |-> FALSE, ret |-> grant]

\* authenticate(), called at current_time with the environment's aps_token;
\* grant is what auth3leg does if it is called.  The cache after the call,
\* whether the call raised, and the token returned.
authenticate(cache, current_time, aps_token, grant) ==
    IF ~Falsy(cache.token) /\ cache.expires_at > current_time
    THEN [cache |-> cache, raised |-> FALSE, ret |-> cache.token]
    ELSE IF ~Falsy(aps_token)
    THEN [cache |-> [token |-> aps_token, expires_at |-> current_time + 3600],
          raised |-> FALSE, ret |-> aps_token]
    ELSE IF grant = AuthFailed
    THEN [cache |-> cache, raised |-> TRUE, ret |-> None]
    ELSE [cache |-> [token |-> grant, expires_at |-> current_time + 3600],
          raised |-> FALSE, ret |-> grant]

\* A handler's first line, token = authenticate(): r is what the rest of
\* the handler does, which an exception of authenticate keeps from running.
AuthThen(a, m, r) ==
    IF a.raised THEN [m |-> m, calls |-> <<>>, ret |-> Raised(AuthError)] ELSE r

-----------------------------------------------------------------------------
(* The tools *)

\* A faulty variant of format_hub: it registers the hub and renders its real
\* identifier.
format_hub_real(m, hub) ==
    LET real_id == Get(hub, "id", Unknown)
        r == mask_hub_id(m, real_id)
    IN  [m |-> r.m, ret |-> [ID |-> real_id]]

\* format_hub: the masker after the call and the rendered block.
format_hub(m, hub) ==
    LET real_id == Get(hub, "id", Unknown)
        r == mask_hub_id(m, real_id)
    IN  [m |-> r.m, ret |-> [ID |-> r.ret]]

format_project(m, project) ==
    LET real_id == Get(project, "id", Unknown)
        r == mask_project_id(m, real_id)
    IN  [m |-> r.m, ret |-> [ID |-> r.ret]]

format_item(m, item) ==
    LET attributes == Get(item, "attributes", EmptyDict)
        real_id == Get(item, "id", Unknown)
        r == IF Get(item, "type", None) = FOLDERS
             THEN mask_folder_id(m, real_id)
             ELSE mask_item_id(m, real_id)
    IN  [m |-> r.m,
         ret |-> [ID |-> r.ret, Type |-> Get(item, "type", Unknown),
                  FileType |-> Get(attributes, "fileType", NA)]]

\* [f(x) for x in list], for f one of the three formatters, which change the
\* masker as they go: the masker after the last and the list of blocks.
RECURSIVE FormatAll(_, _, _)
FormatAll(m, what, list) ==
    IF list = <<>> THEN [m |-> m, ret |-> <<>>]
    ELSE LET r == CASE what = "hub" -> format_hub(m, Head(list))
                    [] what = "project" -> format_project(m, Head(list))
                    [] OTHER -> format_item(m, Head(list))
             rest == FormatAll(r.m, what, Tail(list))
         IN  [m |-> rest.m, ret |-> <<r.ret>> \o rest.ret]

\* get_hubs, with the upstream of world w; fault: whether the upstream call raises.
get_hubs(m, w, fault) ==
    LET calls == <<Call("get_hubs", <<>>)>>
        data == bim360_get_hubs(w)
    IN  IF fault THEN [m |-> m, calls |-> calls, ret |-> Raised(UpstreamError)]
        ELSE IF FalsyDict(data) \/ "data" \notin DOMAIN data
        THEN [m |-> m, calls |-> calls,
              ret |-> Message("Unable to fetch hubs or no hubs found.")]
        ELSE IF data.data = <<>>
        THEN [m |-> m, calls |-> calls, ret |-> Message("No hubs found for this account.")]
        ELSE LET r == FormatAll(m, "hub", data.data)
             IN  [m |-> r.m, calls |-> calls, ret |-> Blocks("", r.ret)]

\* for project in data["data"]: id_masker.register_project_hub(...)
RECURSIVE RegisterAll(_, _, _)
RegisterAll(m, list, real_hub_id) ==
    IF list = <<>> THEN m
    ELSE RegisterAll(register_project_hub(m, Get(Head(list), "id", None), real_hub_id),
                     Tail(list), real_hub_id)

get_projects(m, w, fault, hub_id) ==
    LET real_hub_id == IF is_masked_id(hub_id) THEN unmask_hub_id(m, hub_id) ELSE hub_id
        calls == <<Call("get_projects", <<real_hub_id>>)>>
        data == bim360_get_projects(w, real_hub_id)
    IN  IF fault THEN [m |-> m, calls |-> calls, ret |-> Raised(UpstreamError)]
        ELSE IF FalsyDict(data) \/ "data" \notin DOMAIN data
        THEN [m |-> m, calls |-> calls,
              ret |-> Message("Unable to fetch projects or no projects found.")]
        ELSE IF data.data = <<>>
        THEN [m |-> m, calls |-> calls, ret |-> Message("No projects found for this hub.")]
        ELSE LET m1 == RegisterAll(m, data.data, real_hub_id)
                 r == FormatAll(m1, "project", data.data)
             IN  [m |-> r.m, calls |-> calls, ret |-> Blocks("", r.ret)]

-----------------------------------------------------------------------------
(* Tool calls, one per step *)

\* What process_folder works on: the masker, the list all_items, the upstream
\* calls made so far, and whether an exception is on its way up (exc).
\* ctx holds what the closure reads: the world, real_project_id, file_type
\* and the upstream call that fails, if one does.
NoFault == <<"no fault">>
TopFault == <<"get_top_folders">>

\* A faulty variant of Matches: it compares without lower().
Matches_cased(file_type, item) ==
    LET item_attributes == Get(item, "attributes", EmptyDict)
        item_type == Get(item_attributes, "fileType", <<>>)
    IN  Falsy(file_type) \/ (item_type # <<>> /\ IsSubstring(file_type, item_type))

\* not file_type or (item_type and file_type.lower() in item_type)
Matches(file_type, item) ==
    LET item_attributes == Get(item, "attributes", EmptyDict)
        item_type == Lower(Get(item_attributes, "fileType", <<>>))
    IN  Falsy(file_type) \/ (item_type # <<>> /\ IsSubstring(Lower(file_type), item_type))

RECURSIVE process_folder(_, _, _)
RECURSIVE process_contents(_, _, _)

\* A faulty variant of process_folder: an exception of the upstream call is
\* swallowed where it is raised, and the folder counts as empty.
process_folder_swallowing(st, ctx, folder_id) ==
    LET called == [st EXCEPT !.calls = Append(@, Call("get_folder_contents",
                                                      <<ctx.real_project_id, folder_id>>))]
        contents == bim360_get_folder_contents(ctx.w, ctx.real_project_id, folder_id)
    IN  IF ctx.fault = folder_id THEN called
        ELSE IF FalsyDict(contents) \/ "data" \notin DOMAIN contents THEN called
        ELSE process_contents(called, ctx, contents.data)

\* Another: contents["data"] is read with no test that the response is
\* there and holds the key, so that a response without it raises.
process_folder_unchecked(st, ctx, folder_id) ==
    LET called == [st EXCEPT !.calls = Append(@, Call("get_folder_contents",
                                                      <<ctx.real_project_id, folder_id>>))]
        contents == bim360_get_folder_contents(ctx.w, ctx.real_project_id, folder_id)
    IN  IF ctx.fault = folder_id THEN [called EXCEPT !.exc = TRUE]
        ELSE IF FalsyDict(contents) \/ "data" \notin DOMAIN contents
        THEN [called EXCEPT !.exc = TRUE]
        ELSE process_contents(called, ctx, contents.data)

process_folder(st, ctx, folder_id) ==
    LET called == [st EXCEPT !.calls = Append(@, Call("get_folder_contents",
                                                      <<ctx.real_project_id, folder_id>>))]
        contents == bim360_get_folder_contents(ctx.w, ctx.real_project_id, folder_id)
    IN  IF ctx.fault = folder_id THEN [called EXCEPT !.exc = TRUE]
        ELSE IF FalsyDict(contents) \/ "data" \notin DOMAIN contents THEN called
        ELSE process_contents(called, ctx, contents.data)

\* A faulty variant of process_contents: a subfolder is registered and not
\* entered.
process_contents_flat(st, ctx, items) ==
    IF items = <<>> \/ st.exc THEN st
    ELSE LET item == Head(items)
             type == Get(item, "type", None)
             id == Get(item, "id", None)
         IN  IF type = FOLDERS
             THEN LET r == mask_folder_id(st.m, id)
                  IN  process_contents([st EXCEPT !.m = r.m], ctx, Tail(items))
             ELSE IF type = ITEMS
             THEN LET r == mask_item_id(st.m, id)
                      st1 == [st EXCEPT !.m = r.m]
                      st2 == IF Matches(ctx.file_type, item)
                             THEN [st1 EXCEPT !.all_items = Append(@, item)]
                             ELSE st1
                  IN  process_contents(st2, ctx, Tail(items))
             ELSE process_contents(st, ctx, Tail(items))

\* for item in contents.get("data", []): ...
process_contents(st, ctx, items) ==
    IF items = <<>> \/ st.exc THEN st
    ELSE LET item == Head(items)
             type == Get(item, "type", None)
             id == Get(item, "id", None)
         IN  IF type = FOLDERS
             THEN LET r == mask_folder_id(st.m, id)
                      sub == process_folder([st EXCEPT !.m = r.m], ctx, id)
                  IN  process_contents(sub, ctx, Tail(items))
             ELSE IF type = ITEMS
             THEN LET r == mask_item_id(st.m, id)
                      st1 == [st EXCEPT !.m = r.m]
                      st2 == IF Matches(ctx.file_type, item)
                             THEN [st1 EXCEPT !.all_items = Append(@, item)]
                             ELSE st1
                  IN  process_contents(st2, ctx, Tail(items))
             ELSE process_contents(st, ctx, Tail(items))

\* The loop looking for the "Project Files" folder: it masks each top folder
\* it passes and stops at the first so named.
RECURSIVE FindProjectFiles(_, _)
FindProjectFiles(m, folders) ==
    IF folders = <<>> THEN [m |-> m, project_files_folder_id |-> None]
    ELSE LET folder == Head(folders)
             folder_name == Get(Get(folder, "attributes", EmptyDict), "displayName", <<>>)
             r == mask_folder_id(m, Get(folder, "id", None))
         IN  IF folder_name = ProjectFiles
             THEN [m |-> r.m, project_files_folder_id |-> Get(folder, "id", None)]
             ELSE FindProjectFiles(r.m, Tail(folders))

\* for folder in top_folders.get("data", []): process_folder(folder_id, folder_name)
RECURSIVE ProcessAll(_, _, _)
ProcessAll(st, ctx, folders) ==
    IF folders = <<>> \/ st.exc THEN st
    ELSE ProcessAll(process_folder(st, ctx, Get(Head(folders), "id", None)), ctx,
                    Tail(folders))

\* The try block up to the traversal's end: the state process_folder leaves,
\* or early |-> TRUE when the handler returns "No top folders".
Traverse(m, ctx, hub_id, real_folder_id) ==
    LET st0 == [m |-> m, all_items |-> <<>>, calls |-> <<>>, exc |-> FALSE, early |-> FALSE]
    IN  IF ~Falsy(real_folder_id) THEN process_folder(st0, ctx, real_folder_id)
        ELSE LET st1 == [st0 EXCEPT !.calls = <<Call("get_top_folders",
                                                     <<hub_id, ctx.real_project_id>>)>>]
                 top_folders == bim360_get_top_folders(ctx.w, hub_id, ctx.real_project_id)
             IN  IF ctx.fault = TopFault THEN [st1 EXCEPT !.exc = TRUE]
                 ELSE IF \/ FalsyDict(top_folders)
                         \/ "data" \notin DOMAIN top_folders
                         \/ top_folders.data = <<>>
                 THEN [st1 EXCEPT !.early = TRUE]
                 ELSE LET found == FindProjectFiles(st1.m, top_folders.data)
                          st2 == [st1 EXCEPT !.m = found.m]
                      IN  IF ~Falsy(found.project_files_folder_id)
                          THEN process_folder(st2, ctx, found.project_files_folder_id)
                          ELSE ProcessAll(st2, ctx, top_folders.data)

\* The text that sends the caller to get_projects first.
Guidance ==
    "Cannot find hub ID for project. Please use get_projects first to establish the relationship."

get_project_files(m, w, fault, project_id, folder_id, file_type) ==
    LET real_project_id == IF is_masked_id(project_id)
                           THEN unmask_project_id(m, project_id)
                           ELSE project_id
        hub_id == get_hub_for_project(m, real_project_id)
        real_folder_id == IF ~Falsy(folder_id) /\ StripTruthy(folder_id)
                          THEN IF is_masked_id(folder_id)
                               THEN unmask_folder_id(m, folder_id)
                               ELSE folder_id
                          ELSE None
        ctx == [w |-> w, real_project_id |-> real_project_id, file_type |-> file_type,
                fault |-> fault]
    IN  IF Falsy(hub_id)
        THEN [m |-> m, calls |-> <<>>,
              ret |-> Message(Guidance)]
        ELSE LET st == Traverse(m, ctx, hub_id, real_folder_id)
             IN  IF st.exc
                 THEN [m |-> st.m, calls |-> st.calls,
                       ret |-> ErrorText("accessing project or folder", UpstreamError)]
                 ELSE IF st.early
                 THEN [m |-> st.m, calls |-> st.calls,
                       ret |-> Message("No top folders found in this project.")]
                 ELSE IF st.all_items = <<>>
                 THEN [m |-> st.m, calls |-> st.calls,
                       ret |-> Message(IF Falsy(file_type)
                                       THEN "No files found in the project."
                                       ELSE "No files matching type found in the project.")]
                 ELSE LET r == FormatAll(st.m, "item", st.all_items)
                      IN  [m |-> r.m, calls |-> st.calls,
                           ret |-> Blocks(<<"Found ", Len(st.all_items), " files:">>, r.ret)]

\* The loop of get_versions over versions_data["data"]: the block of each
\* version, with its masked identifier.
RECURSIVE FormatVersions(_, _)
FormatVersions(m, versions) ==
    IF versions = <<>> THEN [m |-> m, ret |-> <<>>]
    ELSE LET version_id == Get(Head(versions), "id", Unknown)
             r == mask_version(m, version_id)
             rest == FormatVersions(r.m, Tail(versions))
         IN  [m |-> rest.m, ret |-> <<[ID |-> r.ret]>> \o rest.ret]

get_versions(m, w, fault, project_id, item_id) ==
    LET real_project_id == IF is_masked_id(project_id)
                           THEN unmask_project_id(m, project_id)
                           ELSE project_id
        real_item_id == IF is_masked_id(item_id) THEN unmask_item_id(m, item_id) ELSE item_id
        calls == <<Call("get_item_versions", <<real_project_id, real_item_id>>)>>
        versions_data == bim360_get_item_versions(w, real_project_id, real_item_id)
    IN  IF fault
        THEN [m |-> m, calls |-> calls, ret |-> ErrorText("getting versions", UpstreamError)]
        ELSE IF \/ FalsyDict(versions_data)
                \/ "data" \notin DOMAIN versions_data
                \/ versions_data.data = <<>>
        THEN [m |-> m, calls |-> calls, ret |-> Message("No versions available for this item.")]
        ELSE LET r == FormatVersions(m, versions_data.data)
             IN  [m |-> r.m, calls |-> calls,
                  ret |-> Blocks(<<"Found ", Len(r.ret), " versions">>, r.ret)]

-----------------------------------------------------------------------------
(* Tool calls, one per step *)

\* What callers pass: real identifiers, surrogates, and a blank folder.
HubArgs == {h1, h2, Prefix["hub"] \o <<"1">>, Prefix["hub"] \o <<"2">>}
ProjectArgs == {p1, p2, Prefix["project"] \o <<"1">>}
FolderArgs == {None, <<" ">>, f1, Prefix["folder"] \o <<"1">>, Prefix["folder"] \o <<"2">>}
FileTypeArgs == {None, <<"R", "V", "T">>}
ItemArgs == {i1, Prefix["item"] \o <<"1">>}
Faults == {NoFault, TopFault, f1}

Init ==
    /\ APS_TOKEN \in {None, EnvToken}
    /\ TOKEN_CACHE = NewTokenCache
    /\ now = 0
    /\ upstream \in Worlds
    /\ id_masker = NewIDMasker
    /\ last = Idle
    /\ lastListed = EmptyDict

\* The projects the upstream returned to a get_projects call, from the call
\* the handler made.
Returned(calls, fault) ==
    IF fault \/ calls = <<>> THEN <<>>
    ELSE LET data == bim360_get_projects(World[upstream], calls[1].args[1])
         IN  IF FalsyDict(data) \/ "data" \notin DOMAIN data THEN <<>> ELSE data.data

GetHubs ==
    \E grant \in Grants, fault \in BOOLEAN :
        LET a == authenticate(TOKEN_CACHE, now, APS_TOKEN, grant)
            r == AuthThen(a, id_masker, get_hubs(id_masker, World[upstream], fault))
        IN  /\ last = Idle
            /\ TOKEN_CACHE' = a.cache
            /\ id_masker' = r.m
            /\ last' = [op |-> "get_hubs", fault |-> fault, calls |-> r.calls,
                        ret |-> r.ret]
            /\ UNCHANGED <<APS_TOKEN, now, upstream, lastListed>>

GetProjects ==
    \E grant \in Grants, fault \in BOOLEAN, hub_id \in HubArgs :
        LET a == authenticate(TOKEN_CACHE, now, APS_TOKEN, grant)
            r == AuthThen(a, id_masker,
                          get_projects(id_masker, World[upstream], fault, hub_id))
            returned == Returned(r.calls, fault)
            ids == {Get(returned[i], "id", None) : i \in 1..Len(returned)}
        IN  /\ last = Idle
            /\ TOKEN_CACHE' = a.cache
            /\ id_masker' = r.m
            /\ last' = [op |-> "get_projects", hub_id |-> hub_id, fault |-> fault,
                        calls |-> r.calls, ret |-> r.ret]
            /\ lastListed' = [p \in (DOMAIN lastListed) \cup ids |->
                                 IF p \in ids THEN r.calls[1].args[1] ELSE lastListed[p]]
            /\ UNCHANGED <<APS_TOKEN, now, upstream>>

GetProjectFiles ==
    \E grant \in Grants, fault \in Faults, project_id \in ProjectArgs,
       folder_id \in FolderArgs, file_type \in FileTypeArgs :
        LET a == authenticate(TOKEN_CACHE, now, APS_TOKEN, grant)
            r == AuthThen(a, id_masker,
                          get_project_files(id_masker, World[upstream], fault, project_id,
                                            folder_id, file_type))
        IN  /\ last = Idle
            /\ TOKEN_CACHE' = a.cache
            /\ id_masker' = r.m
            /\ last' = [op |-> "get_project_files", project_id |-> project_id,
                        folder_id |-> folder_id, file_type |-> file_type,
                        fault |-> fault, calls |-> r.calls, ret |-> r.ret]
            /\ UNCHANGED <<APS_TOKEN, now, upstream, lastListed>>

GetVersions ==
    \E grant \in Grants, fault \in BOOLEAN, project_id \in ProjectArgs,
       item_id \in ItemArgs :
        LET a == authenticate(TOKEN_CACHE, now, APS_TOKEN, grant)
            r == AuthThen(a, id_masker,
                          get_versions(id_masker, World[upstream], fault, project_id,
                                       item_id))
        IN  /\ last = Idle
            /\ TOKEN_CACHE' = a.cache
            /\ id_masker' = r.m
            /\ last' = [op |-> "get_versions", project_id |-> project_id,
                        item_id |-> item_id, fault |-> fault, calls |-> r.calls,
                        ret |-> r.ret]
            /\ UNCHANGED <<APS_TOKEN, now, upstream, lastListed>>

Next == GetHubs \/ GetProjects \/ GetProjectFiles \/ GetVersions \/ Return

Spec == Init /\ [][Next]_vars

-----------------------------------------------------------------------------
(* Properties of the registry, checked under SpecRegistry *)

Fwd(kind) == id_masker[FwdField[kind]]
Rev(kind) == id_masker[RevField[kind]]

Hub2 == Prefix["hub"] \o <<"2">>
Item1 == Prefix["item"] \o <<"1">>

\* C1: in every reachable registry state, for every kind and every non-empty
\* real identifier, unmasking what mask returns gives the identifier back;
\* the forward and reverse maps of each kind are inverses of each other, and
\* no two real identifiers of a kind share a surrogate.
C1_RoundTrip ==
    \A kind \in Kinds :
        /\ \A real_id \in RegistryReals(kind) :
               ~Falsy(real_id) =>
                   LET r == mask_id(id_masker, kind, real_id)
                   IN  unmask_id(r.m, kind, r.ret) = real_id
        /\ \A real_id \in DOMAIN Fwd(kind) :
               /\ Fwd(kind)[real_id] \in DOMAIN Rev(kind)
               /\ Rev(kind)[Fwd(kind)[real_id]] = real_id
        /\ \A masked \in DOMAIN Rev(kind) :
               /\ Rev(kind)[masked] \in DOMAIN Fwd(kind)
               /\ Fwd(kind)[Rev(kind)[masked]] = masked
        /\ \A x, y \in DOMAIN Fwd(kind) : Fwd(kind)[x] = Fwd(kind)[y] => x = y

\* A real hub identifier that reads "hub_2" was masked before another hub,
\* which then got the surrogate "hub_2"; the last mask call round-trips.
C1_Witness ==
    /\ last.op = "mask" /\ last.kind = "hub" /\ ~last.known /\ ~Falsy(last.arg)
    /\ Hub2 \in DOMAIN Fwd("hub")
    /\ Fwd("hub")[Hub2] # Hub2
    /\ Hub2 \in DOMAIN Rev("hub")
    /\ unmask_id(id_masker, "hub", last.ret) = last.arg

\* C2: once mask(kind, r) has returned a surrogate, every later mask(kind, r)
\* returns it again, whatever was called in between, and such a repeated
\* call leaves the whole registry unchanged.
C2_Idempotent ==
    [][/\ \A kind \in Kinds : \A real_id \in DOMAIN Fwd(kind) :
              LET r == mask_id(id_masker', kind, real_id)
              IN  r.ret = Fwd(kind)[real_id] /\ r.m = id_masker'
        /\ (last'.op = "mask" /\ last'.known) =>
              /\ id_masker' = id_masker
              /\ last'.ret = Fwd(last'.kind)[last'.arg]]_vars

\* The first identifier of a kind is masked again after a second one was.
C2_Witness ==
    /\ last.op = "mask" /\ last.known
    /\ MapLen(id_masker, last.kind) >= 2
    /\ last.ret = Prefix[last.kind] \o <<"1">>

\* The surrogates of a kind are exactly kind_1 .. kind_n, n the number of
\* real identifiers masked.
C3_Dense ==
    \A kind \in Kinds :
        {Fwd(kind)[real_id] : real_id \in DOMAIN Fwd(kind)}
            = {Prefix[kind] \o IntToStr(i) : i \in 1..MapLen(id_masker, kind)}

\* A call that masks a real identifier not seen before gives it the number
\* after those given so far, and leaves the numbers given so far alone.
C3_NextNumber ==
    \A kind \in Kinds :
        /\ \A real_id \in DOMAIN Fwd(kind) :
               /\ real_id \in DOMAIN id_masker'[FwdField[kind]]
               /\ id_masker'[FwdField[kind]][real_id] = Fwd(kind)[real_id]
        /\ \A real_id \in (DOMAIN id_masker'[FwdField[kind]]) \ DOMAIN Fwd(kind) :
               id_masker'[FwdField[kind]][real_id]
                   = Prefix[kind] \o IntToStr(MapLen(id_masker, kind) + 1)

\* C3: the surrogates issued for a kind are kind_1, kind_2, ..., kind_n in
\* first-seen order: the i-th distinct real identifier masked gets number i,
\* with no gap, no repeat, starting at 1.
C3_Gapless == []C3_Dense /\ [][C3_NextNumber]_vars

\* Two folders were masked, "b" before "a": "b" holds number 1 and "a" 2.
C3_Witness ==
    /\ last.op = "mask" /\ last.kind = "folder" /\ ~last.known /\ last.arg = <<"a">>
    /\ DOMAIN Fwd("folder") = {<<"a">>, <<"b">>}
    /\ Fwd("folder")[<<"b">>] = Prefix["folder"] \o <<"1">>
    /\ Fwd("folder")[<<"a">>] = Prefix["folder"] \o <<"2">>

\* C10: unmask of a string that is no key of the kind's reverse map returns
\* the string itself and leaves the registry unchanged.
C10_PassThrough ==
    [][last'.op = "unmask" =>
          /\ id_masker' = id_masker
          /\ last'.arg \notin DOMAIN Rev(last'.kind) => last'.ret = last'.arg]_vars

\* unmask of the hub kind was handed "item_1", a surrogate the item kind has
\* issued, and handed it back.
C10_Witness ==
    /\ last.op = "unmask" /\ last.kind = "hub" /\ last.arg = Item1
    /\ Item1 \in DOMAIN Rev("item")
    /\ Item1 \notin DOMAIN Rev("hub")
    /\ Rev("hub") # EmptyDict
    /\ last.ret = Item1

-----------------------------------------------------------------------------
(* Properties of the tools, checked under Spec *)

\* The surrogate grammar ^(hub|project|folder|item|version)_[0-9]+$
Grammar(str) ==
    \E kind \in Kinds :
        /\ Len(str) > Len(Prefix[kind])
        /\ SubSeq(str, 1, Len(Prefix[kind])) = Prefix[kind]
        /\ \A i \in (Len(Prefix[kind]) + 1)..Len(str) :
               \E d \in 1..10 : str[i] = DigitChars[d]

\* The kind of identifier each tool renders.
Renders == [get_hubs |-> "hub", get_projects |-> "project",
            get_project_files |-> "item", get_versions |-> "version"]

FolderCalls == {"get_top_folders", "get_folder_contents"}

\* The project an upstream folder call is about.
ProjectOf(call) == IF call.fn = "get_top_folders" THEN call.args[2] ELSE call.args[1]

\* The real identifier a caller's parameter stands for: what the surrogate
\* was issued for, and the parameter itself when it is no issued surrogate.
Denotes(kind, param) == IF param \in DOMAIN Rev(kind) THEN Rev(kind)[param] ELSE param

\* C4: every step of every tool call, also one that ends in an error text,
\* only adds entries to the five forward and five reverse maps: no entry is
\* removed or changed.
C4_Additive ==
    [][\A kind \in Kinds :
          /\ \A real_id \in DOMAIN Fwd(kind) :
                 /\ real_id \in DOMAIN id_masker'[FwdField[kind]]
                 /\ id_masker'[FwdField[kind]][real_id] = Fwd(kind)[real_id]
          /\ \A masked \in DOMAIN Rev(kind) :
                 /\ masked \in DOMAIN id_masker'[RevField[kind]]
                 /\ id_masker'[RevField[kind]][masked] = Rev(kind)[masked]]_vars

\* A file listing that ended in an error text after it had registered three
\* folders and no item.
C4_Witness ==
    /\ last.op = "get_project_files" /\ last.ret.type = "error"
    /\ DOMAIN Fwd("folder") = {t1, t2, f1}
    /\ DOMAIN Rev("folder") = {Prefix["folder"] \o IntToStr(i) : i \in 1..3}
    /\ DOMAIN Fwd("project") = {p1}

\* C5: get_project_files makes an upstream folder call for a project only if
\* an earlier get_projects call returned that project; otherwise, once past
\* authenticate, it returns the guidance message and calls nothing upstream,
\* also when a folder identifier is supplied.
C5_HubFirst ==
    last.op = "get_project_files" =>
        /\ \A i \in 1..Len(last.calls) :
               /\ last.calls[i].fn \in FolderCalls
               /\ ProjectOf(last.calls[i]) \in DOMAIN lastListed
        /\ (Denotes("project", last.project_id) \notin DOMAIN lastListed
              /\ last.ret.type # "raised") =>
               /\ last.ret = Message(Guidance)
               /\ last.calls = <<>>

\* A project that no get_projects call returned, asked for with a folder
\* identifier, after another project was listed.
C5_Witness ==
    /\ last.op = "get_project_files" /\ last.project_id = p2 /\ last.folder_id = f1
    /\ p2 \notin DOMAIN lastListed
    /\ p1 \in DOMAIN lastListed
    /\ last.ret = Message(Guidance)
    /\ last.calls = <<>>

\* What the upstream got for a parameter: the real identifier, if the
\* parameter is a surrogate issued for the kind, and the parameter itself,
\* if it does not match the surrogate grammar.
Sent(kind, param, got) ==
    /\ param \in DOMAIN Rev(kind) => got = Rev(kind)[param]
    /\ ~Grammar(param) => got = param

\* A folder parameter that is empty or all whitespace.
Blank(folder_id) == ~StripTruthy(folder_id)

\* What C6 asks of each tool but for the folder parameter.
C6_Others ==
    /\ (last'.op = "get_projects" /\ last'.calls # <<>>) =>
           Sent("hub", last'.hub_id, last'.calls[1].args[1])
    /\ (last'.op = "get_versions" /\ last'.calls # <<>>) =>
           /\ Sent("project", last'.project_id, last'.calls[1].args[1])
           /\ Sent("item", last'.item_id, last'.calls[1].args[2])
    /\ last'.op = "get_project_files" =>
           \A i \in 1..Len(last'.calls) :
               Sent("project", last'.project_id, ProjectOf(last'.calls[i]))

\* C6 as claimed: every parameter that is an issued surrogate reaches the
\* upstream as its real identifier, and every parameter off the surrogate
\* grammar reaches it unchanged.
C6_AsClaimed ==
    [][/\ C6_Others
       /\ (last'.op = "get_project_files" /\ last'.calls # <<>>
             /\ last'.folder_id # None) =>
              /\ last'.calls[1].fn = "get_folder_contents"
              /\ Sent("folder", last'.folder_id, last'.calls[1].args[2])]_vars

\* C6, amended: as claimed, but a folder parameter that is empty or all
\* whitespace counts as not supplied: the handler asks for the top folders.
C6_Resolves ==
    [][/\ C6_Others
       /\ (last'.op = "get_project_files" /\ last'.calls # <<>>
             /\ last'.folder_id # None) =>
              IF Blank(last'.folder_id)
              THEN last'.calls[1].fn = "get_top_folders"
              ELSE /\ last'.calls[1].fn = "get_folder_contents"
                   /\ Sent("folder", last'.folder_id, last'.calls[1].args[2])]_vars

\* get_versions was called with two surrogates and the upstream got the
\* real project and the real item.
C6_Witness ==
    /\ last.op = "get_versions"
    /\ last.project_id = Prefix["project"] \o <<"1">>
    /\ last.item_id = Item1
    /\ last.calls # <<>>
    /\ last.project_id \in DOMAIN Rev("project")
    /\ last.item_id \in DOMAIN Rev("item")
    /\ Rev("project")[last.project_id] = last.calls[1].args[1]
    /\ Rev("item")[last.item_id] = last.calls[1].args[2]
    /\ last.calls[1].args = <<p1, i3>>

\* Whether a file passes the filter: any file when none is given, else one
\* whose file type, in lower case, holds the filter in lower case.
Passes(file_type, item) ==
    \/ Falsy(file_type)
    \/ /\ "attributes" \in DOMAIN item
       /\ "fileType" \in DOMAIN item.attributes
       /\ IsSubstring(Lower(file_type), Lower(item.attributes.fileType))

RECURSIVE Concat(_)
Concat(seqs) == IF seqs = <<>> THEN <<>> ELSE Head(seqs) \o Concat(Tail(seqs))

\* The files of the tree under a folder that pass the filter, depth first,
\* children in the order the upstream holds them.
RECURSIVE FilesUnder(_, _, _)
FilesUnder(w, file_type, folder_id) ==
    LET contents == Get(w.contents, folder_id, NoneDict)
    IN  IF "data" \notin DOMAIN contents THEN <<>>
        ELSE Concat([i \in 1..Len(contents.data) |->
                 LET child == contents.data[i]
                 IN  IF Get(child, "type", None) = ITEMS
                     THEN IF Passes(file_type, child) THEN <<child>> ELSE <<>>
                     ELSE IF Get(child, "type", None) = FOLDERS
                     THEN FilesUnder(w, file_type, Get(child, "id", None))
                     ELSE <<>>])

\* The folders a traversal starts from: the folder the caller names; else the
\* first top folder named "Project Files", if its identifier is not empty;
\* else every top folder.
TraversalRoots(w, real_project_id, folder_id) ==
    IF folder_id # None /\ ~Blank(folder_id) THEN <<Denotes("folder", folder_id)>>
    ELSE LET top == Get(w.top_folders, real_project_id, NoneDict)
             folders == IF "data" \in DOMAIN top THEN top.data ELSE <<>>
             named == {i \in 1..Len(folders) :
                          Get(Get(folders[i], "attributes", EmptyDict), "displayName", <<>>)
                              = ProjectFiles}
             first == CHOOSE i \in named : \A j \in named : i <= j
         IN  IF named # {} /\ ~Falsy(Get(folders[first], "id", None))
             THEN <<folders[first].id>>
             ELSE [i \in 1..Len(folders) |-> Get(folders[i], "id", None)]

\* The files a get_project_files call is to report, in order; the registry
\* is the one the call started with.
ExpectedFiles(w, project_id, folder_id, file_type) ==
    LET roots == TraversalRoots(w, Denotes("project", project_id), folder_id)
    IN  Concat([i \in 1..Len(roots) |-> FilesUnder(w, file_type, roots[i])])

\* The upstream records a call that returned blocks has rendered, in order.
SourceRecords(call) ==
    CASE call.op = "get_hubs" -> bim360_get_hubs(World[upstream]).data
      [] call.op = "get_projects" ->
             bim360_get_projects(World[upstream], call.calls[1].args[1]).data
      [] call.op = "get_versions" ->
             bim360_get_item_versions(World[upstream], call.calls[1].args[1],
                                      call.calls[1].args[2]).data
      [] call.op = "get_project_files" ->
             ExpectedFiles(World[upstream], call.project_id, call.folder_id,
                           call.file_type)

\* The real identifiers the upstream accounts hold.
UpstreamIds == {h1, h2, p1, p2, t1, t2, t3, f1, i1, i2, i3, i4, v1, v2}

\* C7 as claimed: every ID field a tool renders is a surrogate registered in
\* the map of the kind rendered, and no real identifier of the upstream.
C7_AsClaimed ==
    (last.op \in DOMAIN Renders /\ last.ret.type = "blocks") =>
        \A i \in 1..Len(last.ret.blocks) :
            /\ last.ret.blocks[i].ID \in DOMAIN Rev(Renders[last.op])
            /\ last.ret.blocks[i].ID \notin UpstreamIds

\* C7, amended: the ID field of each record rendered is the surrogate
\* registered, when the call returns, for the record's identifier ("Unknown"
\* standing for the identifier of a record that has no id key), and no real
\* identifier of the upstream; but a record whose id is empty or null
\* renders as the sentinel "Unknown", which is not registered.
C7_Masked ==
    [][(last'.op \in DOMAIN Renders /\ last'.ret.type = "blocks") =>
          \A records \in {SourceRecords(last')}, blocks \in {last'.ret.blocks},
             rev \in {id_masker'[RevField[Renders[last'.op]]]} :
              /\ Len(blocks) = Len(records)
              /\ \A i \in 1..Len(records) :
                     LET real_id == Get(records[i], "id", Unknown)
                     IN  IF Falsy(real_id)
                         THEN blocks[i].ID = Unknown /\ Unknown \notin DOMAIN rev
                         ELSE /\ blocks[i].ID \in DOMAIN rev
                              /\ rev[blocks[i].ID] = real_id
                              /\ Grammar(blocks[i].ID)
                              /\ blocks[i].ID \notin UpstreamIds]_vars

\* get_hubs has rendered a hub without an id key, a hub with an empty id and
\* a hub with an id: a surrogate, the sentinel, a surrogate.
C7_Witness ==
    /\ last.op = "get_hubs" /\ last.ret.type = "blocks"
    /\ last.ret.blocks = <<[ID |-> Prefix["hub"] \o <<"1">>], [ID |-> Unknown],
                           [ID |-> Prefix["hub"] \o <<"2">>]>>
    /\ Rev("hub")[Prefix["hub"] \o <<"1">>] = Unknown
    /\ Rev("hub")[Prefix["hub"] \o <<"2">>] = h1

\* C8: hub_of(p) is absent if no get_projects call has returned p, and else
\* is the real hub identifier the most recent such call sent upstream, never
\* the surrogate the caller supplied.
C8_LastWriteWins ==
    /\ DOMAIN id_masker.project_to_hub = DOMAIN lastListed
    /\ \A p \in (DOMAIN lastListed) \cup {p1, p2} :
           get_hub_for_project(id_masker, p) = Get(lastListed, p, None)
    /\ \A p \in DOMAIN id_masker.project_to_hub :
           /\ ~Grammar(id_masker.project_to_hub[p])
           /\ (last.op = "get_projects" /\ last.ret.type = "blocks"
                 /\ Grammar(last.hub_id)) =>
                  id_masker.project_to_hub[p] # last.hub_id

\* get_projects, called with the surrogate of the second hub, has returned a
\* project that is now owned by that hub.
C8_Witness ==
    /\ last.op = "get_projects" /\ last.hub_id = Hub2 /\ last.ret.type = "blocks"
    /\ last.calls = <<Call("get_projects", <<h2>>)>>
    /\ get_hub_for_project(id_masker, p1) = h2
    /\ get_hub_for_project(id_masker, p2) = None

\* C9: the files get_project_files reports are those of the tree under the
\* traversal roots that pass the filter, in depth-first order with children
\* in the upstream's order.
C9_PreOrder ==
    [][(/\ last'.op = "get_project_files"
        /\ last'.ret.type \in {"blocks", "message"}
        /\ last'.ret \notin {Message(Guidance),
                             Message("No top folders found in this project.")}) =>
          \A expected \in {ExpectedFiles(World[upstream], last'.project_id,
                                         last'.folder_id, last'.file_type)} :
              IF expected = <<>> THEN last'.ret.type = "message"
              ELSE /\ last'.ret.type = "blocks"
                   /\ last'.ret.head = <<"Found ", Len(expected), " files:">>
                   /\ Len(last'.ret.blocks) = Len(expected)
                   /\ \A i \in 1..Len(expected), m \in {id_masker'} :
                          last'.ret.blocks[i] = format_item(m, expected[i]).ret]_vars

\* A listing filtered by "RVT" over the two-level tree: the file of the
\* subfolder comes before the file of its parent, and the file without a
\* file type is left out.
C9_Witness ==
    /\ upstream = "A"
    /\ last.op = "get_project_files" /\ last.file_type = <<"R", "V", "T">>
    /\ last.folder_id = None
    /\ last.ret.type = "blocks"
    /\ Len(last.ret.blocks) = 2
    /\ Rev("item")[last.ret.blocks[1].ID] = i3
    /\ Rev("item")[last.ret.blocks[2].ID] = i1
    /\ i2 \in DOMAIN Fwd("item")

-----------------------------------------------------------------------------
(* is_masked_id, called on strings of every make *)

\* The longest run of characters after the head of a string handed to
\* is_masked_id.
MaxTail == 2

\* What a string may go on with: ASCII digits, a decimal digit that is not
\* ASCII, a newline, a letter, a blank.
TailChars == {"0", "7", "U+0663", "\n", "a", " "}

Tails == UNION {[1..n -> TailChars] : n \in 0..MaxTail}

\* What a string may start with: the five kind words with their underscore,
\* and near misses of them.
Heads ==
    {Prefix[kind] : kind \in Kinds}
        \cup {<<"H", "u", "b", "_">>, <<"h", "u", "b">>, <<"h", "u", "b", "s", "_">>,
              <<" ", "h", "u", "b", "_">>, <<>>}

SurrogateArgs == {head \o tail : head \in Heads, tail \in Tails}

IsMaskedId(id_str) ==
    /\ last = Idle
    /\ last' = [op |-> "is_masked_id", arg |-> id_str, ret |-> is_masked_id(id_str)]
    /\ UNCHANGED <<auth_vars, upstream, id_masker, lastListed>>

\* is_masked_id is called between mask calls, so on registries that differ.
NextSurrogate ==
    \/ \E id_str \in SurrogateArgs : IsMaskedId(id_str)
    \/ \E real_id \in {<<"a">>, <<"b">>} : Mask("hub", real_id)
    \/ Return

SpecSurrogate == InitRegistry /\ [][NextSurrogate]_vars

\* C11 as claimed: is_masked_id(s) is true if and only if s is, as a whole,
\* one of the five kind words, an underscore and one or more of the ASCII
\* digits, nothing after them; whatever the registry holds.
C11_AsClaimed ==
    last.op = "is_masked_id" => (last.ret <=> Grammar(last.arg))

\* What is_masked_id does accept: the strings of the grammar, those with one
\* newline after them, and either with decimal digits that are not ASCII.
C11_Accepts ==
    last.op = "is_masked_id" =>
        (last.ret <=>
            \E kind \in Kinds : \E n \in 1..(Len(last.arg) - Len(Prefix[kind])) :
                /\ SubSeq(last.arg, 1, Len(Prefix[kind])) = Prefix[kind]
                /\ \A i \in 1..n : last.arg[Len(Prefix[kind]) + i] \in ReDigit
                /\ \/ Len(last.arg) = Len(Prefix[kind]) + n
                   \/ /\ Len(last.arg) = Len(Prefix[kind]) + n + 1
                      /\ last.arg[Len(last.arg)] = "\n")

\* is_masked_id has taken "hub_7" followed by a newline for a surrogate,
\* with a hub registered.
C11_Witness ==
    /\ last.op = "is_masked_id"
    /\ last.arg = Prefix["hub"] \o <<"7", "\n">>
    /\ last.ret
    /\ ~Grammar(last.arg)
    /\ Fwd("hub") # EmptyDict

-----------------------------------------------------------------------------
(* More properties of the registry, checked under SpecRegistry *)

\* C12: mask(kind, r) with r empty or None returns "Unknown" and leaves the
\* registry as it was: nothing is registered and no number is used up, so
\* the next real identifier not seen before still gets the next number.
C12_Sentinel ==
    [][(last'.op = "mask" /\ Falsy(last'.arg)) =>
          /\ last'.ret = Unknown
          /\ id_masker' = id_masker
          /\ \A real_id \in RegistryReals(last'.kind) \ DOMAIN Fwd(last'.kind) :
                 ~Falsy(real_id) =>
                     mask_id(id_masker', last'.kind, real_id).ret
                         = Prefix[last'.kind] \o IntToStr(MapLen(id_masker, last'.kind) + 1)]_vars

\* The empty string was masked as a folder when one folder was registered:
\* the sentinel came back, and the folder not seen yet is still to get 2.
C12_Witness ==
    /\ last.op = "mask" /\ last.kind = "folder" /\ last.arg = <<>>
    /\ last.ret = Unknown
    /\ DOMAIN Fwd("folder") = {<<"a">>}
    /\ DOMAIN Rev("folder") = {Prefix["folder"] \o <<"1">>}
    /\ mask_id(id_masker, "folder", <<"b">>).ret = Prefix["folder"] \o <<"2">>

-----------------------------------------------------------------------------
(* More properties of the tools, checked under Spec *)

\* Whether an upstream call of a tool call raised: the call that was to fail
\* was made.
UpstreamRaised(call) ==
    IF call.op = "get_project_files"
    THEN \E i \in 1..Len(call.calls) :
             \/ call.fault = TopFault /\ call.calls[i].fn = "get_top_folders"
             \/ /\ call.calls[i].fn = "get_folder_contents"
                /\ call.calls[i].args[2] = call.fault
    ELSE call.fault /\ call.calls # <<>>

\* C13: when an upstream call made by get_project_files (top folders, or
\* folder contents at any depth) or by get_versions raises, the tool does
\* not raise: it returns a text that starts with "Error " and carries the
\* failure's message, and no list of files or versions.
C13_ErrorText ==
    (last.op \in {"get_project_files", "get_versions"} /\ UpstreamRaised(last)) =>
        /\ last.ret.type = "error"
        /\ DOMAIN last.ret = {"type", "text"}
        /\ Head(last.ret.text) = "Error "
        /\ last.ret.text[Len(last.ret.text)] = UpstreamError
        /\ last.calls[Len(last.calls)] =
               IF last.op = "get_versions" THEN last.calls[1]
               ELSE IF last.fault = TopFault THEN last.calls[1]
               ELSE Call("get_folder_contents", <<ProjectOf(last.calls[1]), last.fault>>)

\* The contents of a subfolder failed after a file of its parent had
\* matched: the file is registered, and the error text is all that returns.
C13_Witness ==
    /\ upstream = "C"
    /\ last.op = "get_project_files" /\ last.fault = f1
    /\ Len(last.calls) = 3
    /\ last.calls[3] = Call("get_folder_contents", <<p1, f1>>)
    /\ i4 \in DOMAIN Fwd("item")
    /\ last.ret = ErrorText("accessing project or folder", UpstreamError)

\* C14 as claimed: whichever of the four tools is called and whichever of
\* its upstream calls fails, the call ends by returning a text, informative
\* or error-prefixed: no exception leaves the handler.
C14_AsClaimed ==
    (last.op \in DOMAIN Renders /\ UpstreamRaised(last)) =>
        last.ret.type \in {"message", "blocks", "error"}

\* What does hold: of the four tools, get_project_files and get_versions turn
\* a failure of an upstream call into a text, and get_hubs and get_projects
\* let it out of the handler, the registry untouched.
C14_Escapes ==
    [][(last'.op \in DOMAIN Renders /\ UpstreamRaised(last')) =>
          IF last'.op \in {"get_hubs", "get_projects"}
          THEN last'.ret = Raised(UpstreamError) /\ id_masker' = id_masker
          ELSE last'.ret.type = "error"]_vars

\* get_projects was called with a surrogate that a get_hubs call had issued,
\* the upstream call failed, and the exception left the handler.
C14_Witness ==
    /\ last.op = "get_projects" /\ last.fault
    /\ last.hub_id \in DOMAIN Rev("hub")
    /\ last.calls = <<Call("get_projects", <<Rev("hub")[last.hub_id]>>)>>
    /\ last.ret = Raised(UpstreamError)

\* An upstream response that is absent, lacks the "data" key, or holds an
\* empty collection.
Lacking(response) ==
    \/ response = NoneDict
    \/ "data" \notin DOMAIN response
    \/ response.data = <<>>

\* What the upstream answered to a call the handler made.
Response(call) ==
    CASE call.fn = "get_hubs" -> bim360_get_hubs(World[upstream])
      [] call.fn = "get_projects" -> bim360_get_projects(World[upstream], call.args[1])
      [] call.fn = "get_top_folders" ->
             bim360_get_top_folders(World[upstream], call.args[1], call.args[2])
      [] call.fn = "get_folder_contents" ->
             bim360_get_folder_contents(World[upstream], call.args[1], call.args[2])
      [] call.fn = "get_item_versions" ->
             bim360_get_item_versions(World[upstream], call.args[1], call.args[2])

\* C15: when the upstream response is absent, lacks the data key or holds an
\* empty collection, each of the four tools raises nothing and returns a
\* message that is no error text; in get_project_files a folder with such a
\* contents response adds no file, and the folders beside it are still
\* traversed: the files reported are those of the rest of the tree.
C15_Descriptive ==
    [][(last'.op \in DOMAIN Renders /\ ~UpstreamRaised(last')) =>
          \A i \in 1..Len(last'.calls) :
              Lacking(Response(last'.calls[i])) =>
                  IF last'.calls[i].fn # "get_folder_contents"
                  THEN last'.ret.type = "message"
                  ELSE \A expected \in {ExpectedFiles(World[upstream], last'.project_id,
                                                      last'.folder_id, last'.file_type)} :
                           /\ FilesUnder(World[upstream], None, last'.calls[i].args[2]) = <<>>
                           /\ IF expected = <<>> THEN last'.ret.type = "message"
                              ELSE /\ last'.ret.type = "blocks"
                                   /\ Len(last'.ret.blocks) = Len(expected)]_vars

\* A subfolder whose contents response has no data key was fetched, and
\* then the top folder after its parent: the files of both top folders are
\* reported.
C15_Witness ==
    /\ upstream = "C"
    /\ last.op = "get_project_files" /\ last.file_type = None
    /\ last.calls = <<Call("get_top_folders", <<h1, p1>>),
                      Call("get_folder_contents", <<p1, t1>>),
                      Call("get_folder_contents", <<p1, f1>>),
                      Call("get_folder_contents", <<p1, t3>>)>>
    /\ "data" \notin DOMAIN Response(last.calls[3])
    /\ last.ret.type = "blocks"
    /\ Len(last.ret.blocks) = 2

\* The top folders the upstream returned to a get_project_files call made
\* without a folder identifier: the empty list, if it did not get that far.
TopFolders(call) ==
    IF /\ call.op = "get_project_files"
       /\ call.calls # <<>>
       /\ call.calls[1].fn = "get_top_folders"
       /\ call.fault # TopFault
       /\ ~Lacking(Response(call.calls[1]))
    THEN Response(call.calls[1]).data
    ELSE <<>>

\* C16 as claimed: after a get_project_files call without a folder
\* identifier to which the upstream returned top folders, every one of them
\* (that has an identifier) is registered in the folder map, whether or not
\* one is named "Project Files" and wherever it stands in the list.
C16_AsClaimed ==
    \A i \in 1..Len(TopFolders(last)) :
        ~Falsy(Get(TopFolders(last)[i], "id", None)) =>
            TopFolders(last)[i].id \in DOMAIN Fwd("folder")

\* What does hold: the top folders up to and with the first one named
\* "Project Files" are registered by the call, and all of them when none is
\* so named.
C16_UpToProjectFiles ==
    \A top \in {TopFolders(last)} :
        \A i \in 1..Len(top) :
            (/\ ~Falsy(Get(top[i], "id", None))
             /\ \A j \in 1..(i - 1) :
                    Get(Get(top[j], "attributes", EmptyDict), "displayName", <<>>)
                        # ProjectFiles) =>
                top[i].id \in DOMAIN Fwd("folder")

\* "Project Files" stands second of three top folders: the call has listed
\* its files, and the third top folder has no surrogate.
C16_Witness ==
    /\ upstream = "A"
    /\ last.op = "get_project_files" /\ last.folder_id = None
    /\ Len(TopFolders(last)) = 3
    /\ TopFolders(last)[3].id = t3
    /\ last.ret.type = "blocks"
    /\ {t1, t2} \subseteq DOMAIN Fwd("folder")
    /\ t3 \notin DOMAIN Fwd("folder")

\* The folders of the tree under a folder, itself first, depth first,
\* children in the order the upstream holds them.
RECURSIVE FoldersUnder(_, _)
FoldersUnder(w, folder_id) ==
    LET contents == Get(w.contents, folder_id, NoneDict)
    IN  IF "data" \notin DOMAIN contents THEN <<folder_id>>
        ELSE <<folder_id>> \o
             Concat([i \in 1..Len(contents.data) |->
                 IF Get(contents.data[i], "type", None) = FOLDERS
                 THEN FoldersUnder(w, Get(contents.data[i], "id", None))
                 ELSE <<>>])

\* The traversal roots as C17 has them: the folder the caller names; else
\* the first top folder named "Project Files", when there is one; else
\* every top folder.
ClaimedRoots(w, real_project_id, folder_id) ==
    IF folder_id # None /\ ~Blank(folder_id) THEN <<Denotes("folder", folder_id)>>
    ELSE LET top == Get(w.top_folders, real_project_id, NoneDict)
             folders == IF "data" \in DOMAIN top THEN top.data ELSE <<>>
             named == {i \in 1..Len(folders) :
                          Get(Get(folders[i], "attributes", EmptyDict), "displayName", <<>>)
                              = ProjectFiles}
         IN  IF named # {}
             THEN <<Get(folders[CHOOSE i \in named : \A j \in named : i <= j], "id", None)>>
             ELSE [i \in 1..Len(folders) |-> Get(folders[i], "id", None)]

\* The upstream calls of a get_project_files call that traverses from the
\* given roots: get_top_folders unless the caller named a folder, then the
\* contents of the folders under each root in turn.
CallsFrom(w, hub_id, real_project_id, folder_id, roots) ==
    (IF folder_id # None /\ ~Blank(folder_id) THEN <<>>
     ELSE <<Call("get_top_folders", <<hub_id, real_project_id>>)>>)
    \o Concat([i \in 1..Len(roots) |->
                  LET under == FoldersUnder(w, roots[i])
                  IN  [j \in 1..Len(under) |->
                          Call("get_folder_contents", <<real_project_id, under[j]>>)]])

\* A get_project_files call that has got past the hub lookup and has met no
\* failure.
Traversed(call) ==
    /\ call.op = "get_project_files"
    /\ call.ret.type \in {"blocks", "message"}
    /\ call.ret # Message(Guidance)

\* C17 as claimed: a call that names a folder traverses from that folder
\* alone and does not ask for the top folders; another traverses from the
\* first top folder named "Project Files" alone when there is one, and from
\* every top folder, in the upstream's order, when there is none.
C17_AsClaimed ==
    [][Traversed(last') =>
          \A project \in {Denotes("project", last'.project_id)} :
              last'.calls =
                  CallsFrom(World[upstream], get_hub_for_project(id_masker, project),
                            project, last'.folder_id,
                            ClaimedRoots(World[upstream], project, last'.folder_id))]_vars

\* What does hold: the same, but that a "Project Files" folder whose
\* identifier is empty or missing is passed over, and every top folder is
\* traversed as if none were so named.
C17_Roots ==
    [][Traversed(last') =>
          \A project \in {Denotes("project", last'.project_id)} :
              last'.calls =
                  CallsFrom(World[upstream], get_hub_for_project(id_masker, project),
                            project, last'.folder_id,
                            TraversalRoots(World[upstream], project, last'.folder_id))]_vars

\* The second of two top folders is named "Project Files" and has an empty
\* identifier: the call has traversed the first top folder too.
C17_Witness ==
    /\ upstream = "B"
    /\ last.op = "get_project_files" /\ last.folder_id = None
    /\ Len(TopFolders(last)) = 2
    /\ TopFolders(last)[2] = Folder(<<>>, ProjectFiles)
    /\ Traversed(last)
    /\ Len(last.calls) >= 3
    /\ last.calls[2] = Call("get_folder_contents", <<p1, t1>>)
    /\ last.calls[Len(last.calls)] = Call("get_folder_contents", <<p1, <<>>>>)

\* The folders whose contents a call has fetched, in the order of the calls.
Fetched(call) ==
    LET at == {i \in 1..Len(call.calls) : call.calls[i].fn = "get_folder_contents"}
    IN  [f \in {call.calls[i].args[2] : i \in at} |->
            Cardinality({i \in at : call.calls[i].args[2] = f})]

\* C18: over a finite folder tree a get_project_files call comes to an end,
\* and when it meets no failure it has fetched the contents of each folder
\* that can be reached from the traversal roots exactly once, and of no
\* other folder.
C18_OncePerFolder ==
    [][last'.op = "get_project_files" =>
          /\ last'.ret.type \in {"blocks", "message", "error", "raised"}
          /\ Traversed(last') =>
                \A roots \in {TraversalRoots(World[upstream],
                                             Denotes("project", last'.project_id),
                                             last'.folder_id)} :
                    \A reach \in {UNION {{FoldersUnder(World[upstream], roots[i])[j] :
                                             j \in 1..Len(FoldersUnder(World[upstream],
                                                                       roots[i]))} :
                                         i \in 1..Len(roots)}} :
                        /\ DOMAIN Fetched(last') = reach
                        /\ \A f \in reach : Fetched(last')[f] = 1]_vars

\* The two-level tree under "Project Files" was listed: the contents of the
\* folder and of its subfolder were fetched once each, and those of no other
\* top folder.
C18_Witness ==
    /\ upstream = "A"
    /\ last.op = "get_project_files" /\ last.folder_id = None
    /\ Traversed(last)
    /\ last.calls = <<Call("get_top_folders", <<h1, p1>>),
                      Call("get_folder_contents", <<p1, t2>>),
                      Call("get_folder_contents", <<p1, f1>>)>>
    /\ DOMAIN Fetched(last) = {t2, f1}

-----------------------------------------------------------------------------
(* authenticate, called as the clock goes on *)

\* The seconds at which the clock is read: around the start, and around one
\* and two hours after it.
Times == {0, 1, 3599, 3600, 3601, 7199, 7200, 7201}

\* What auth3leg may do when it is called: raise, or grant one of two tokens.
AuthGrants == Grants \cup {<<"g", "2">>}

\* Nothing has been called yet; since is the time and the token of the last
\* acquisition, of which there is none.
InitAuth ==
    /\ APS_TOKEN \in {None, EnvToken}
    /\ TOKEN_CACHE = NewTokenCache
    /\ now = 0
    /\ upstream = "C"
    /\ id_masker = NewIDMasker
    /\ last = [op |-> "start", since |-> NoneDict]
    /\ lastListed = EmptyDict

\* One call of authenticate.  since is kept as the token cache is described:
\* a call that returns a token when none was acquired yet, or an hour or more
\* after the last acquisition, is the new acquisition.
Authenticate(grant) ==
    LET a == authenticate(TOKEN_CACHE, now, APS_TOKEN, grant)
        due == last.since = NoneDict \/ now >= last.since.at + 3600
    IN  /\ TOKEN_CACHE' = a.cache
        /\ last' = [op |-> "authenticate", at |-> now, grant |-> grant,
                    raised |-> a.raised, ret |-> a.ret,
                    since |-> IF ~a.raised /\ due THEN [at |-> now, token |-> a.ret]
                              ELSE last.since]
        /\ UNCHANGED <<APS_TOKEN, now, upstream, id_masker, lastListed>>

Tick ==
    /\ \E t \in Times : t > now /\ now' = t
    /\ UNCHANGED <<APS_TOKEN, TOKEN_CACHE, upstream, id_masker, last, lastListed>>

NextAuth == (\E grant \in AuthGrants : Authenticate(grant)) \/ Tick

SpecAuth == InitAuth /\ [][NextAuth]_vars

\* C19: after a call at time t has acquired a token, from the environment or
\* from auth3leg, every call at a time before t + 3600 returns that token,
\* acquires nothing and leaves the cache as it is; the first call at
\* t + 3600 or later acquires again and sets the expiry to its time + 3600.
C19_TokenCache ==
    [][(now' = now /\ last'.op = "authenticate") =>
          IF last.since # NoneDict /\ now < last.since.at + 3600
          THEN /\ ~last'.raised
               /\ last'.ret = last.since.token
               /\ TOKEN_CACHE' = TOKEN_CACHE
               /\ TOKEN_CACHE.expires_at = last.since.at + 3600
          ELSE IF last'.raised THEN TOKEN_CACHE' = TOKEN_CACHE
          ELSE /\ last'.ret = IF APS_TOKEN # None THEN APS_TOKEN ELSE last'.grant
               /\ TOKEN_CACHE' = [token |-> last'.ret, expires_at |-> now + 3600]]_vars

\* A token granted at second 1 was returned again at second 3600, one
\* second before its hour was over, when auth3leg would have granted another.
C19_Witness ==
    /\ now = 3600
    /\ APS_TOKEN = None
    /\ last.op = "authenticate" /\ last.at = 3600
    /\ last.grant = <<"g", "2">>
    /\ last.ret = GrantedToken
    /\ last.since = [at |-> 1, token |-> GrantedToken]
    /\ TOKEN_CACHE = [token |-> GrantedToken, expires_at |-> 3601]

-----------------------------------------------------------------------------
(* Two threads in a mask method of one kind, with no lock *)

Threads == {1, 2}

\* A faulty variant of NewSurrogate: the number does not follow the size of
\* the map.
NewSurrogate_fixed(m, kind) == Prefix[kind] \o IntToStr(1)

\* f"{kind}_{len(self.<kind>_map) + 1}"
NewSurrogate(m, kind) == Prefix[kind] \o IntToStr(MapLen(m, kind) + 1)

\* Where a thread stands in the method: before the membership test ("test"),
\* before the surrogate is made from the size of the map ("size"), before the
\* forward dict is written ("fwd"), before the reverse dict is written
\* ("rev"), before the return statement reads the forward dict ("ret"), and
\* after it ("done").
MidCall == {"size", "fwd", "rev", "ret"}

\* One step of a thread th in a mask method on masker m: the masker and the
\* thread after it.
mask_step(m, kind, th) ==
    CASE th.pc = "test" ->
             [m |-> m,
              th |-> IF Falsy(th.real_id) THEN [th EXCEPT !.pc = "done", !.ret = Unknown]
                     ELSE IF th.real_id \notin DOMAIN m[FwdField[kind]]
                     THEN [th EXCEPT !.pc = "size"]
                     ELSE [th EXCEPT !.pc = "ret"]]
      [] th.pc = "size" ->
             [m |-> m, th |-> [th EXCEPT !.pc = "fwd", !.masked = NewSurrogate(m, kind)]]
      [] th.pc = "fwd" ->
             [m |-> [m EXCEPT ![FwdField[kind]] = Put(@, th.real_id, th.masked)],
              th |-> [th EXCEPT !.pc = "rev"]]
      [] th.pc = "rev" ->
             [m |-> [m EXCEPT ![RevField[kind]] = Put(@, th.masked, th.real_id)],
              th |-> [th EXCEPT !.pc = "ret"]]
      [] th.pc = "ret" ->
             [m |-> m,
              th |-> [th EXCEPT !.pc = "done", !.ret = m[FwdField[kind]][th.real_id]]]

\* Each thread is about to mask a real identifier of the same kind;
\* interleaved records whether a thread has ever taken a step while the
\* other was in the middle of its call.
InitThreads ==
    /\ APS_TOKEN = None
    /\ TOKEN_CACHE = NewTokenCache
    /\ now = 0
    /\ upstream = "C"
    /\ id_masker = NewIDMasker
    /\ last \in {[op |-> "threads", kind |-> kind, interleaved |-> FALSE,
                  thread |-> [i \in Threads |->
                                 [pc |-> "test", real_id |-> real_id[i],
                                  masked |-> None, ret |-> None]]] :
                    kind \in Kinds, real_id \in [Threads -> {<<"a">>, <<"b">>}]}
    /\ lastListed = EmptyDict

Step(i) ==
    /\ last.thread[i].pc # "done"
    /\ \E r \in {mask_step(id_masker, last.kind, last.thread[i])} :
           /\ id_masker' = r.m
           /\ last' = [last EXCEPT
                         !.thread[i] = r.th,
                         !.interleaved = @ \/ \E j \in Threads \ {i} :
                                                  last.thread[j].pc \in MidCall]
    /\ UNCHANGED <<auth_vars, upstream, lastListed>>

NextThreads == \E i \in Threads : Step(i)

SpecThreads == InitThreads /\ [][NextThreads]_vars

\* Both threads have returned, from masking two distinct identifiers, with
\* the same surrogate, of which the reverse map holds one identifier only.
Collision ==
    /\ \A i \in Threads : last.thread[i].pc = "done"
    /\ last.thread[1].real_id # last.thread[2].real_id
    /\ last.thread[1].ret = last.thread[2].ret
    /\ Cardinality(DOMAIN Rev(last.kind)) = 1

\* C20: two mask calls of one kind, for two distinct identifiers not seen
\* before, give both the same surrogate only if their steps interleaved: when
\* each call runs to its end before the other starts, each identifier gets
\* its own surrogate and the two maps are inverses of each other.  (That
\* interleaved steps can end so is C20_Witness.)
C20_SerialOnly ==
    /\ Collision => last.interleaved
    /\ (/\ \A i \in Threads : last.thread[i].pc = "done"
        /\ ~last.interleaved) =>
           /\ \A i \in Threads :
                  /\ last.thread[i].ret \in DOMAIN Rev(last.kind)
                  /\ Rev(last.kind)[last.thread[i].ret] = last.thread[i].real_id
           /\ \A real_id \in DOMAIN Fwd(last.kind) :
                  /\ Fwd(last.kind)[real_id] \in DOMAIN Rev(last.kind)
                  /\ Rev(last.kind)[Fwd(last.kind)[real_id]] = real_id

\* The steps of the two threads interleaved, both hub identifiers got
\* "hub_1", and the reverse map holds one of them.
C20_Witness ==
    /\ Collision
    /\ last.interleaved
    /\ last.kind = "hub"
    /\ \A i \in Threads : last.thread[i].ret = Prefix["hub"] \o <<"1">>
    /\ DOMAIN Fwd("hub") = {<<"a">>, <<"b">>}
    /\ DOMAIN Rev("hub") = {Prefix["hub"] \o <<"1">>}

=============================================================================
